---- MODULE Spec2Model ----
(***************************************************************************)
(* KaCalc: the expression evaluator of calculator_core.py (Lexer, Parser,  *)
(* Interpreter, evaluate_expression).                                      *)
(*                                                                         *)
(* Strings are sequences of one-character strings, so that the lexer can   *)
(* index them.  Python numbers are exact rationals n/d tagged int or float *)
(* (IEEE rounding is not modelled); a computation that leaves the range    *)
(* the rationals of the model cover, or whose libm result is not a         *)
(* rational, ends in the marker RangeExit and such inputs are left out of  *)
(* Init.                                                                   *)
(*                                                                         *)
(* Spec is one call of evaluate_expression, stage by stage, in a window    *)
(* left as constructed.  SpecUI is the window of main.py: each step is one *)
(* event handler run to its end on the GUI thread, with '=' and a voice    *)
(* result calling evaluate_expression as a whole.  The handlers write the  *)
(* text of expression_display and never read it; that text is not kept.    *)
(***************************************************************************)
EXTENDS Integers, Sequences, FiniteSets, TLC

VARIABLES pieces,    \* the lexemes the input text is written with
          text,      \* the argument of evaluate_expression
          pc,        \* where the call stands
          tree,      \* the AST returned by Parser.parse, once parsed
          value,     \* the value returned by Interpreter.visit, once visited
          handler,   \* the except clause that caught an exception, if one did
          result     \* the string returned, once returned

VARIABLES current_expression,   \* MainWindow.current_expression
          last_result_showing,  \* MainWindow.last_result_showing
          result_display,       \* text and alignment of the result line
          expression_alignment, \* alignment of the expression line
          listening,            \* AiWorker threads that have not delivered yet
          event,                \* the handler that ran last and what it was given
          returned              \* what the most recent evaluation returned, kept until
                                \* a handler types into or clears the expression

evaluator == <<pieces, text, pc, tree, value, handler, result>>
window == <<current_expression, last_result_showing, result_display,
            expression_alignment, listening, event, returned>>
vars == <<evaluator, window>>

(* ---------------------------------------------------------------------- *)
(* Bounds of the model                                                     *)
(* ---------------------------------------------------------------------- *)
\* numerators and denominators of the modelled numbers stay below this
MaxAbs == 30000
\* the short inputs: every text over Alphabet up to this length
MaxLen == 3
\* the operands of the generated expressions: 0..MaxOperand
MaxOperand == 3
\* the buttons extend a current_expression of fewer characters than this
MaxExpression == 3
\* AiWorker threads listening at one time
MaxListening == 1

(* ---------------------------------------------------------------------- *)
(* Characters (str.isspace, str.isdigit, str.isalpha, str.isalnum)         *)
(* ---------------------------------------------------------------------- *)
DigitChars == <<"0", "1", "2", "3", "4", "5", "6", "7", "8", "9">>

Letters == {"a", "b", "c", "d", "e", "f", "g", "h", "i", "j", "k", "l", "m",
            "n", "o", "p", "q", "r", "s", "t", "u", "v", "w", "x", "y", "z"}

isspace(c) == c \in {" ", "\t", "\n"}

isdigit(c) == \E i \in 1..10 : DigitChars[i] = c

isalpha(c) == c \in Letters

isalnum(c) == isalpha(c) \/ isdigit(c)

DigitVal(c) == (CHOOSE i \in 1..10 : DigitChars[i] = c) - 1

RECURSIVE Join(_)
\* the Python string a sequence of pieces stands for
Join(s) == IF s = <<>> THEN "" ELSE Head(s) \o Join(Tail(s))

(* ---------------------------------------------------------------------- *)
(* Numbers                                                                 *)
(* ---------------------------------------------------------------------- *)
Abs(x) == IF x < 0 THEN -x ELSE x

RECURSIVE GCD(_, _)
GCD(a, b) == IF b = 0 THEN a ELSE GCD(b, a % b)

\* markers in place of a number
RangeExit == [t |-> "range"]
Raise(exc, msg) == [t |-> "raise", exc |-> exc, msg |-> msg]
Complex == [t |-> "complex"]

IsNum(v) == v.t \in {"int", "float"}

\* the number n/d of Python type ty, or RangeExit when the model cannot hold it
InRange(ty, nn, dd) ==
    IF Abs(nn) > MaxAbs \/ dd > MaxAbs THEN RangeExit
    ELSE [t |-> ty, n |-> nn, d |-> dd]

Reduced(ty, n, d, g) == InRange(ty, n \div g, d \div g)

Rat(ty, n, d) == Reduced(ty, n, d, GCD(Abs(n), d))

PyInt(n) == [t |-> "int", n |-> n, d |-> 1]
PyFloat(n) == [t |-> "float", n |-> n, d |-> 1]

ResType(a, b) == IF a.t = "int" /\ b.t = "int" THEN "int" ELSE "float"

IsZero(v) == v.n = 0
IsNeg(v) == v.n < 0
IsIntegral(v) == v.d = 1
Less(a, b) == a.n * b.d < b.n * a.d

Add(a, b) == Rat(ResType(a, b), a.n * b.d + b.n * a.d, a.d * b.d)
Sub(a, b) == Rat(ResType(a, b), a.n * b.d - b.n * a.d, a.d * b.d)
Mul(a, b) == Rat(ResType(a, b), a.n * b.n, a.d * b.d)
\* a / b for b # 0: true division, always a float
TrueDiv(a, b) ==
    IF b.n < 0 THEN Rat("float", -(a.n * b.d), a.d * (-b.n))
    ELSE Rat("float", a.n * b.d, a.d * b.n)
Neg(a) == [a EXCEPT !.n = -a.n]

RECURSIVE PowAcc(_, _, _)
\* acc * b^k by repeated multiplication, leaving the model's range at once
PowAcc(acc, b, k) ==
    IF k = 0 \/ acc.t = "range" THEN acc ELSE PowAcc(Mul(acc, b), b, k - 1)

\* b^k for an integer k >= 0, of type ty
PowNat(b, k, ty) ==
    LET one == [t |-> ty, n |-> 1, d |-> 1]
        bb == [b EXCEPT !.t = ty]
    IN  IF k = 0 THEN one
        ELSE IF b.n = 0 THEN [t |-> ty, n |-> 0, d |-> 1]
        ELSE IF Abs(b.n) = 1 /\ b.d = 1
             THEN [t |-> ty, n |-> (IF b.n < 0 /\ k % 2 = 1 THEN -1 ELSE 1), d |-> 1]
        ELSE PowAcc(one, bb, k)

Recip(a) == IF a.n < 0 THEN [t |-> "float", n |-> -a.d, d |-> -a.n]
            ELSE [t |-> "float", n |-> a.d, d |-> a.n]

RECURSIVE ISqrtFrom(_, _)
ISqrtFrom(n, r) == IF (r + 1) * (r + 1) > n THEN r ELSE ISqrtFrom(n, r + 1)
ISqrt(n) == ISqrtFrom(n, 0)
IsSquare(n) == ISqrt(n) * ISqrt(n) = n

ZeroPowMsg == <<"0.0 cannot be raised to a negative power">>

\* Python's a ** b on int and float operands
Pow(a, b) ==
    IF IsIntegral(b)
    THEN IF b.n >= 0
         THEN PowNat(a, b.n, ResType(a, b))
         ELSE IF IsZero(a) THEN Raise("ZeroDivisionError", ZeroPowMsg)
              ELSE PowNat(Recip(a), -b.n, "float")
    ELSE IF IsZero(a)
         THEN IF IsNeg(b) THEN Raise("ZeroDivisionError", ZeroPowMsg)
              ELSE PyFloat(0)
    ELSE IF a.n = 1 /\ a.d = 1 THEN PyFloat(1)
    ELSE IF IsNeg(a) THEN Complex
    ELSE IF b.d = 2 /\ IsSquare(a.n) /\ IsSquare(a.d)
         THEN LET s == [t |-> "float", n |-> ISqrt(a.n), d |-> ISqrt(a.d)]
              IN  IF b.n >= 0 THEN PowNat(s, b.n, "float")
                  ELSE PowNat(Recip(s), -b.n, "float")
    ELSE RangeExit

(* libm, on the arguments whose result is a rational *)
MathSqrt(a) ==
    IF IsSquare(a.n) /\ IsSquare(a.d)
    THEN [t |-> "float", n |-> ISqrt(a.n), d |-> ISqrt(a.d)]
    ELSE RangeExit

MathSin(a) == IF IsZero(a) THEN PyFloat(0) ELSE RangeExit
MathCos(a) == IF IsZero(a) THEN PyFloat(1) ELSE RangeExit
MathTan(a) == IF IsZero(a) THEN PyFloat(0) ELSE RangeExit

RECURSIVE Log10Int(_)
\* k when n = 10^k, and -1 when n is no power of ten
Log10Int(n) ==
    IF n <= 0 THEN -1
    ELSE IF n = 1 THEN 0
    ELSE IF n % 10 # 0 THEN -1
    ELSE IF Log10Int(n \div 10) < 0 THEN -1
    ELSE Log10Int(n \div 10) + 1

MathLog10(a) ==
    IF a.d = 1 /\ Log10Int(a.n) >= 0 THEN PyFloat(Log10Int(a.n))
    ELSE IF a.n = 1 /\ Log10Int(a.d) >= 0 THEN PyFloat(-Log10Int(a.d))
    ELSE RangeExit

MathLog(a) == IF a.n = 1 /\ a.d = 1 THEN PyFloat(0) ELSE RangeExit

(* ---------------------------------------------------------------------- *)
(* Number to text: str(int), repr(float), "%.10g"                          *)
(* ---------------------------------------------------------------------- *)
RECURSIVE DigitsOf(_)
\* the decimal digits of n >= 0, most significant first
DigitsOf(n) == IF n < 10 THEN <<n>> ELSE DigitsOf(n \div 10) \o <<n % 10>>

DigitStr(ds) == [i \in 1..Len(ds) |-> DigitChars[ds[i] + 1]]

\* str(n) of an int
StrInt(n) == IF n < 0 THEN <<"-">> \o DigitStr(DigitsOf(-n)) ELSE DigitStr(DigitsOf(n))

RECURSIVE FracDigits(_, _, _)
\* the next k digits of r/d (0 <= r < d) after the point, and the remainder left
FracDigits(r, d, k) ==
    IF k = 0 THEN [digs |-> <<>>, rem |-> r]
    ELSE LET rest == FracDigits((r * 10) % d, d, k - 1)
         IN  [digs |-> <<(r * 10) \div d>> \o rest.digs, rem |-> rest.rem]

RECURSIVE LeadingZeros(_, _)
\* how many zeros follow the point of r/d (0 < r < d) before its first digit
LeadingZeros(r, d) == IF (r * 10) \div d # 0 THEN 0 ELSE 1 + LeadingZeros(r * 10, d)

RECURSIVE Pow10(_)
Pow10(k) == IF k = 0 THEN 1 ELSE 10 * Pow10(k - 1)

RECURSIVE IncDigits(_)
\* the digit string plus one in its last place; carry when it overflows
IncDigits(ds) ==
    IF ds = <<>> THEN [digs |-> <<>>, carry |-> TRUE]
    ELSE LET last == ds[Len(ds)]
             front == SubSeq(ds, 1, Len(ds) - 1)
         IN  IF last < 9 THEN [digs |-> front \o <<last + 1>>, carry |-> FALSE]
             ELSE LET f == IncDigits(front)
                  IN  [digs |-> f.digs \o <<0>>, carry |-> f.carry]

RECURSIVE StripZeros(_)
StripZeros(ds) ==
    IF Len(ds) > 1 /\ ds[Len(ds)] = 0 THEN StripZeros(SubSeq(ds, 1, Len(ds) - 1))
    ELSE ds

\* kept digits, the digit e after them and whether more follows: rounded half-even
Rounded(kept, e, more, x) ==
    IF ~(e > 5 \/ (e = 5 /\ (more \/ kept[Len(kept)] % 2 = 1)))
    THEN [digs |-> StripZeros(kept), exp |-> x]
    ELSE IF IncDigits(kept).carry THEN [digs |-> <<1>>, exp |-> x + 1]
    ELSE [digs |-> StripZeros(IncDigits(kept).digs), exp |-> x]

\* all: prec + 1 digits from the first significant one, x its decimal exponent
RoundTo(prec, all, rem, x) == Rounded(SubSeq(all, 1, prec), all[prec + 1], rem # 0, x)

\* a/d >= 1, with id the digits of its integer part
SigLarge(r, d, prec, id, f) == RoundTo(prec, id \o f.digs, f.rem, Len(id) - 1)

\* 0 < r/d < 1, with z zeros after the point
SigSmall(d, prec, z, f) == RoundTo(prec, f.digs, f.rem, -(z + 1))

LargeDigits(r, d, prec, id) == SigLarge(r, d, prec, id, FracDigits(r, d, prec + 1 - Len(id)))

SmallDigits(r, d, prec, z) == SigSmall(d, prec, z, FracDigits(r * Pow10(z), d, prec + 1))

\* a/d > 0 rounded half-even to prec significant digits:
\* digs (trailing zeros removed) and the decimal exponent of the first digit
SigDigits(a, d, prec) ==
    IF a \div d > 0 THEN LargeDigits(a % d, d, prec, DigitsOf(a \div d))
    ELSE SmallDigits(a % d, d, prec, LeadingZeros(a % d, d))

Zeros(k) == [i \in 1..k |-> "0"]

\* mantissa digits ds and exponent digits ex as d.ddde-XX
ScientificText(ds, ex, negative) ==
    <<ds[1]>> \o (IF Len(ds) > 1 THEN <<".">> \o Tail(ds) ELSE <<>>)
    \o <<"e", IF negative THEN "-" ELSE "+">>
    \o (IF Len(ex) < 2 THEN <<"0">> ELSE <<>>) \o ex

Scientific(sd) ==
    ScientificText(DigitStr(sd.digs), DigitStr(DigitsOf(Abs(sd.exp))), sd.exp < 0)

\* digits ds with the first at decimal exponent x in positional notation
FixedText(ds, x) ==
    IF x < 0 THEN <<"0", ".">> \o Zeros(-x - 1) \o ds
    ELSE IF Len(ds) <= x + 1 THEN ds \o Zeros(x + 1 - Len(ds))
    ELSE SubSeq(ds, 1, x + 1) \o <<".">> \o SubSeq(ds, x + 2, Len(ds))

Fixed(sd) == FixedText(DigitStr(sd.digs), sd.exp)

GPrecision == 10

\* the %g presentation of rounded digits
GText(sd) == IF sd.exp < -4 \/ sd.exp >= GPrecision THEN Scientific(sd) ELSE Fixed(sd)

Signed(v, body) == (IF v.n < 0 THEN <<"-">> ELSE <<>>) \o body

\* f"{v:.10g}" of a float v that is not integral
FormatG(v) == Signed(v, GText(SigDigits(Abs(v.n), v.d, GPrecision)))

\* the repr presentation of a float's shortest digits
ReprText(sd) ==
    IF sd.exp < -4 \/ sd.exp >= 16 THEN Scientific(sd)
    ELSE IF Len(sd.digs) <= sd.exp + 1 THEN Fixed(sd) \o <<".", "0">>
    ELSE Fixed(sd)

\* repr(v) of a number: str of an int, the shortest decimal of a float literal
Repr(v) ==
    IF v.t = "int" THEN StrInt(v.n)
    ELSE IF v.n = 0 THEN <<"0", ".", "0">>
    ELSE Signed(v, ReprText(SigDigits(Abs(v.n), v.d, 17)))

(* ---------------------------------------------------------------------- *)
(* Tokens and the Lexer                                                    *)
(* ---------------------------------------------------------------------- *)
NUMBER == "NUMBER"
OPERATOR == "OPERATOR"
PARENTHESIS == "PARENTHESIS"
IDENTIFIER == "IDENTIFIER"
EOF == "EOF"
None == "None"

BASIC_OPERATORS == {"+", "-", "*", "/"}
FUNCTIONS == {"sqrt", "sin", "cos", "tan", "log", "ln"}

TOKEN(type, val) == [type |-> type, value |-> val]

\* f"{token}": TOKEN(type, repr(value))
TokenRepr(tok) ==
    <<"TOKEN(", tok.type, ", ">>
    \o (IF tok.type = NUMBER THEN Repr(tok.value)
        ELSE IF tok.type = EOF THEN <<"None">>
        ELSE <<"'", tok.value, "'">>)
    \o <<")">>

\* an exception leaving a stage: its class and str(e) as pieces
Fail(exc, msg) == [ok |-> FALSE, exc |-> exc, msg |-> msg]
\* the computation leaves the numbers the model covers
FailRange == [ok |-> FALSE, exc |-> "range", msg |-> <<>>]

\* self.current_char, position 1 being the first character
current_char(t, pos) == IF pos <= Len(t) THEN t[pos] ELSE None

RECURSIVE skip_whitespace(_, _)
skip_whitespace(t, pos) ==
    IF pos <= Len(t) /\ isspace(t[pos]) THEN skip_whitespace(t, pos + 1) ELSE pos

RECURSIVE NumberEnd(_, _)
\* get_number's loop: the position after the run of digits and points
NumberEnd(t, pos) ==
    IF pos <= Len(t) /\ (isdigit(t[pos]) \/ t[pos] = ".") THEN NumberEnd(t, pos + 1)
    ELSE pos

RECURSIVE DecimalValue(_, _)
\* the integer a digit string spells, after acc; -1 once it leaves the range
DecimalValue(ds, acc) ==
    IF acc < 0 \/ acc > MaxAbs THEN -1
    ELSE IF ds = <<>> THEN acc
    ELSE DecimalValue(Tail(ds), acc * 10 + DigitVal(Head(ds)))

RECURSIVE Pow10Cap(_)
\* 10^k, or some number above MaxAbs when 10^k is above it
Pow10Cap(k) ==
    IF k = 0 THEN 1
    ELSE LET q == Pow10Cap(k - 1) IN IF q > MaxAbs THEN q ELSE 10 * q

Points(run) == {i \in 1..Len(run) : run[i] = "."}

\* the float a run with its one point at dot spells
FloatValue(run, dot) ==
    IF DecimalValue(SubSeq(run, 1, dot - 1) \o SubSeq(run, dot + 1, Len(run)), 0) < 0
       \/ Pow10Cap(Len(run) - dot) > MaxAbs
    THEN RangeExit
    ELSE Rat("float",
             DecimalValue(SubSeq(run, 1, dot - 1) \o SubSeq(run, dot + 1, Len(run)), 0),
             Pow10Cap(Len(run) - dot))

\* float(result) if '.' in result else int(result)
NumberValue(run) ==
    IF Points(run) = {}
    THEN IF DecimalValue(run, 0) < 0 THEN RangeExit ELSE PyInt(DecimalValue(run, 0))
    ELSE IF Cardinality(Points(run)) > 1 THEN Raise("ValueError", <<>>)
    ELSE FloatValue(run, CHOOSE i \in Points(run) : TRUE)

\* the try/except of get_number around the conversion
NumberResult(run, v, end) ==
    IF v.t = "raise"
    THEN Fail("LexerError", <<"Invalid number format: ">> \o run)
    ELSE IF v.t = "range" THEN FailRange
    ELSE [ok |-> TRUE, value |-> v, pos |-> end]

NumberRun(run, end) == NumberResult(run, NumberValue(run), end)

get_number(t, pos) == NumberRun(SubSeq(t, pos, NumberEnd(t, pos) - 1), NumberEnd(t, pos))

RECURSIVE IdentifierEnd(_, _)
IdentifierEnd(t, pos) ==
    IF pos <= Len(t) /\ (isalnum(t[pos]) \/ t[pos] = "_") THEN IdentifierEnd(t, pos + 1)
    ELSE pos

get_identifier(t, pos) ==
    [value |-> Join(SubSeq(t, pos, IdentifierEnd(t, pos) - 1)),
     pos |-> IdentifierEnd(t, pos)]

Lexed(tok, pos) == [ok |-> TRUE, tok |-> tok, pos |-> pos]

NumberToken(g) == IF g.ok THEN Lexed(TOKEN(NUMBER, g.value), g.pos) ELSE g

IdentifierToken(g) == Lexed(TOKEN(IDENTIFIER, g.value), g.pos)

\* the body of get_next_token's loop at the first character c that is no blank
TokenAt(t, pos, c) ==
    IF pos > Len(t) THEN Lexed(TOKEN(EOF, None), pos)
    ELSE IF isdigit(c) THEN NumberToken(get_number(t, pos))
    ELSE IF isalpha(c) THEN IdentifierToken(get_identifier(t, pos))
    ELSE IF c = "*"
         THEN IF pos + 1 <= Len(t) /\ t[pos + 1] = "*"
              THEN Lexed(TOKEN(OPERATOR, "**"), pos + 2)
              ELSE Lexed(TOKEN(OPERATOR, "*"), pos + 1)
    ELSE IF c \in BASIC_OPERATORS THEN Lexed(TOKEN(OPERATOR, c), pos + 1)
    ELSE IF c \in {"(", ")"} THEN Lexed(TOKEN(PARENTHESIS, c), pos + 1)
    ELSE Fail("LexerError", <<"Invalid character: '", c, "'">>)

SkippedTo(t, pos) == TokenAt(t, pos, current_char(t, pos))

\* Lexer.get_next_token with the lexer at position pos of t
get_next_token(t, pos) == SkippedTo(t, skip_whitespace(t, pos))

(* ---------------------------------------------------------------------- *)
(* AST nodes and the Parser                                                *)
(* A parser state is the lexer position pos and current_token cur.         *)
(* ---------------------------------------------------------------------- *)
Num(v) == [k |-> "Num", value |-> v]
UnaryOp(op, operand) == [k |-> "UnaryOp", op |-> op, operand |-> operand]
BinOp(left, op, right) == [k |-> "BinOp", left |-> left, op |-> op, right |-> right]
FuncCall(func_name, argument) ==
    [k |-> "FuncCall", func_name |-> func_name, argument |-> argument]

Parsed(node, st) == [ok |-> TRUE, node |-> node, pos |-> st.pos, cur |-> st.cur]

\* an exception propagates; a result r goes on to K(r)
Try(r, K(_)) == IF r.ok THEN K(r) ELSE r

\* self.current_token = self.lexer.get_next_token()
NextToken(t, st) ==
    Try(get_next_token(t, st.pos), LAMBDA g : [ok |-> TRUE, pos |-> g.pos, cur |-> g.tok])

\* Parser.__init__
ParserInit(t) == NextToken(t, [pos |-> 1])

\* Parser.eat; token_value None when no value is asked for
eat(t, st, token_type, token_value) ==
    IF st.cur.type = token_type /\ (token_value = None \/ st.cur.value = token_value)
    THEN NextToken(t, st)
    ELSE Fail("ParserError",
              <<"Invalid syntax. Expected ", token_type>>
              \o (IF token_value # None THEN <<" with value ", token_value>> ELSE <<>>)
              \o <<", got ">> \o TokenRepr(st.cur))

MathPi == RangeExit
MathE == RangeExit

RECURSIVE factor(_, _), power(_, _), term(_, _), expr(_, _)
RECURSIVE term_loop(_, _), expr_loop(_, _)

\* '(' expr ')' from a state whose current token is '(': the node of expr
Parenthesised(t, st) ==
    Try(eat(t, st, PARENTHESIS, "("), LAMBDA e1 :
    Try(expr(t, e1), LAMBDA x :
    Try(eat(t, x, PARENTHESIS, ")"), LAMBDA e2 : Parsed(x.node, e2))))

\* the sign taken over a whole power, as in Python's own grammar
SignedFactor_power(t, st, op) ==
    Try(eat(t, st, OPERATOR, op), LAMBDA e :
    Try(power(t, e), LAMBDA f : Parsed(UnaryOp(op, f.node), f)))

\* (PLUS | MINUS) factor
SignedFactor(t, st, op) ==
    Try(eat(t, st, OPERATOR, op), LAMBDA e :
    Try(factor(t, e), LAMBDA f : Parsed(UnaryOp(op, f.node), f)))

\* the identifier func_name with the parser past it, in state e
AfterIdentifier(t, func_name, e) ==
    IF e.cur.type = PARENTHESIS /\ e.cur.value = "("
    THEN IF func_name \notin FUNCTIONS
         THEN Fail("ParserError", <<"Unknown function: ", func_name>>)
         ELSE Try(Parenthesised(t, e), LAMBDA a : Parsed(FuncCall(func_name, a.node), a))
    ELSE IF func_name = "pi" THEN Parsed(Num(MathPi), e)
    ELSE IF func_name = "e" THEN Parsed(Num(MathE), e)
    ELSE Fail("ParserError", <<"Unknown constant: ", func_name>>)

\* IDENTIFIER (LPAREN expr RPAREN)?
IdentifierFactor(t, st) ==
    Try(eat(t, st, IDENTIFIER, None), LAMBDA e : AfterIdentifier(t, st.cur.value, e))

\* Parser.factor
factor(t, st) ==
    IF st.cur.type = OPERATOR /\ st.cur.value = "+" THEN SignedFactor(t, st, "+")
    ELSE IF st.cur.type = OPERATOR /\ st.cur.value = "-" THEN SignedFactor(t, st, "-")
    ELSE IF st.cur.type = NUMBER
         THEN Try(eat(t, st, NUMBER, None), LAMBDA e : Parsed(Num(st.cur.value), e))
    ELSE IF st.cur.type = PARENTHESIS /\ st.cur.value = "(" THEN Parenthesised(t, st)
    ELSE IF st.cur.type = IDENTIFIER THEN IdentifierFactor(t, st)
    ELSE Fail("ParserError", <<"Unexpected token: ">> \o TokenRepr(st.cur))

RECURSIVE power_left_loop(_, _)
\* '**' taken in a while loop like '*' and '/': left-associative
power_left_loop(t, r) ==
    IF r.cur.type = OPERATOR /\ r.cur.value = "**"
    THEN Try(eat(t, r, OPERATOR, "**"), LAMBDA e :
         Try(factor(t, e), LAMBDA q :
             power_left_loop(t, Parsed(BinOp(r.node, "**", q.node), q))))
    ELSE r

power_left(t, st) == Try(factor(t, st), LAMBDA f : power_left_loop(t, f))

\* Parser.power: factor ('**' power)?
power(t, st) ==
    Try(factor(t, st), LAMBDA f :
        IF f.cur.type = OPERATOR /\ f.cur.value = "**"
        THEN Try(eat(t, f, OPERATOR, "**"), LAMBDA e :
             Try(power(t, e), LAMBDA r : Parsed(BinOp(f.node, "**", r.node), r)))
        ELSE f)

\* term's loop taking '+' and '-' as well: one level for the four operators
term_loop_flat(t, r) ==
    IF r.cur.type = OPERATOR /\ r.cur.value \in {"*", "/", "+", "-"}
    THEN Try(eat(t, r, OPERATOR, r.cur.value), LAMBDA e :
         Try(power(t, e), LAMBDA q :
             term_loop(t, Parsed(BinOp(r.node, r.cur.value, q.node), q))))
    ELSE r

\* the while loop of Parser.term, node being r.node
term_loop(t, r) ==
    IF r.cur.type = OPERATOR /\ r.cur.value \in {"*", "/"}
    THEN Try(eat(t, r, OPERATOR, r.cur.value), LAMBDA e :
         Try(power(t, e), LAMBDA q :
             term_loop(t, Parsed(BinOp(r.node, r.cur.value, q.node), q))))
    ELSE r

\* Parser.term
term(t, st) == Try(power(t, st), LAMBDA f : term_loop(t, f))

\* the while loop of Parser.expr, node being r.node
expr_loop(t, r) ==
    IF r.cur.type = OPERATOR /\ r.cur.value \in {"+", "-"}
    THEN Try(eat(t, r, OPERATOR, r.cur.value), LAMBDA e :
         Try(term(t, e), LAMBDA q :
             expr_loop(t, Parsed(BinOp(r.node, r.cur.value, q.node), q))))
    ELSE r

\* Parser.expr
expr(t, st) == Try(term(t, st), LAMBDA f : expr_loop(t, f))

\* the check of parse() after expr: nothing but EOF may follow
ExpectEOF(x) ==
    IF x.cur.type # EOF
    THEN Fail("ParserError", <<"Unexpected token after expression: ">> \o TokenRepr(x.cur))
    ELSE x

\* Parser(Lexer(text)).parse()
parse(t) == Try(ParserInit(t), LAMBDA st : Try(expr(t, st), LAMBDA x : ExpectEOF(x)))

(* ---------------------------------------------------------------------- *)
(* The Interpreter                                                         *)
(* A visit yields a number, Complex, Raise(exc, msg) or RangeExit.         *)
(* ---------------------------------------------------------------------- *)
Stops(v) == v.t \in {"raise", "range"}

\* self.functions[name](a): the math functions behind the six names
ApplyFunction(name, a) ==
    CASE name = "sqrt" -> MathSqrt(a)
      [] name = "sin" -> MathSin(a)
      [] name = "cos" -> MathCos(a)
      [] name = "tan" -> MathTan(a)
      [] name = "log" -> MathLog10(a)
      [] name = "ln" -> MathLog(a)

NotSupported(op) ==
    <<"'", op, "' not supported between instances of 'complex' and 'int'">>

\* the checks and the call of visit_FuncCall on the argument's value
FuncCallOn(func_name, argument_val) ==
    IF func_name \notin FUNCTIONS
    THEN Raise("InterpreterError", <<"Unknown function: ", func_name>>)
    ELSE IF Stops(argument_val) THEN argument_val
    ELSE IF argument_val.t = "complex"
         THEN IF func_name = "sqrt" THEN Raise("TypeError", NotSupported("<"))
              ELSE IF func_name \in {"log", "ln"} THEN Raise("TypeError", NotSupported("<="))
              ELSE Raise("TypeError", <<"must be real number, not complex">>)
    ELSE IF func_name = "sqrt" /\ IsNeg(argument_val)
         THEN Raise("InterpreterError", <<"Domain error: ", "sqrt", " of negative number">>)
    ELSE IF func_name \in {"log", "ln"} /\ (IsNeg(argument_val) \/ IsZero(argument_val))
         THEN Raise("InterpreterError", <<"Domain error: ", "log", " of non-positive number">>)
    ELSE ApplyFunction(func_name, argument_val)

\* visit_BinOp without its test of the divisor: Python's own ZeroDivisionError
BinOpOn_unchecked(op, left_val, right_val) ==
    IF Stops(left_val) THEN left_val
    ELSE IF Stops(right_val) THEN right_val
    ELSE IF left_val.t = "complex" \/ right_val.t = "complex" THEN RangeExit
    ELSE CASE op = "+" -> Add(left_val, right_val)
           [] op = "-" -> Sub(left_val, right_val)
           [] op = "*" -> Mul(left_val, right_val)
           [] op = "/" -> IF IsZero(right_val)
                          THEN Raise("ZeroDivisionError", <<"division by zero">>)
                          ELSE TrueDiv(left_val, right_val)
           [] op = "**" -> Pow(left_val, right_val)

\* the operator of visit_BinOp on the two operands' values
BinOpOn(op, left_val, right_val) ==
    IF Stops(left_val) THEN left_val
    ELSE IF Stops(right_val) THEN right_val
    ELSE IF left_val.t = "complex" \/ right_val.t = "complex" THEN RangeExit
    ELSE CASE op = "+" -> Add(left_val, right_val)
           [] op = "-" -> Sub(left_val, right_val)
           [] op = "*" -> Mul(left_val, right_val)
           [] op = "/" -> IF IsZero(right_val)
                          THEN Raise("InterpreterError", <<"Division by zero">>)
                          ELSE TrueDiv(left_val, right_val)
           [] op = "**" -> Pow(left_val, right_val)

\* visit_UnaryOp on the operand's value
UnaryOpOn(op, val) ==
    IF Stops(val) \/ val.t = "complex" THEN val
    ELSE IF op = "+" THEN val
    ELSE Neg(val)

RECURSIVE visit(_)
\* visit_BinOp taking its right operand before its left one
visit_right_first(node) ==
    CASE node.k = "Num" -> node.value
      [] node.k = "UnaryOp" -> UnaryOpOn(node.op, visit(node.operand))
      [] node.k = "FuncCall" -> FuncCallOn(node.func_name, visit(node.argument))
      [] node.k = "BinOp" ->
            LET right_val == visit(node.right)
            IN  IF Stops(right_val) THEN right_val
                ELSE BinOpOn(node.op, visit(node.left), right_val)

\* Interpreter.visit: dispatch on the node's class
visit(node) ==
    CASE node.k = "Num" -> node.value
      [] node.k = "UnaryOp" -> UnaryOpOn(node.op, visit(node.operand))
      [] node.k = "FuncCall" -> FuncCallOn(node.func_name, visit(node.argument))
      [] node.k = "BinOp" ->
            LET left_val == visit(node.left)
            IN  IF Stops(left_val) THEN left_val
                ELSE BinOpOn(node.op, left_val, visit(node.right))

\* the value of visit(tree) as an outcome of the try block
Visited(v) ==
    IF v.t = "raise" THEN Fail(v.exc, v.msg)
    ELSE IF v.t = "range" THEN FailRange
    ELSE [ok |-> TRUE, value |-> v]

\* Interpreter.interpret
interpret(t) == Try(parse(t), LAMBDA p : Visited(visit(p.node)))

\* str(result) for every number, without the test result == int(result)
format_result_str(v) == IF IsNum(v) THEN Repr(v) ELSE <<"(complex)">>

\* lines 324-329: the text of a result
format_result(v) ==
    IF IsNum(v)
    THEN IF IsIntegral(v) THEN StrInt(v.n) ELSE FormatG(v)
    ELSE <<"(complex)">>

\* the except clauses: every exception becomes f"Error: {e}"
ErrorString(f) == <<"Error: ">> \o f.msg

\* which except clause catches the exception
Handler(f) ==
    IF f.exc \in {"LexerError", "ParserError"} THEN "syntax"
    ELSE IF f.exc \in {"InterpreterError", "ZeroDivisionError", "ValueError"} THEN "runtime"
    ELSE "unexpected"

\* the return statements of the try block and of the except clauses
Returned(r) == IF r.ok THEN format_result(r.value) ELSE ErrorString(r)

evaluate_expression(t) == IF t = <<>> THEN <<>> ELSE Returned(interpret(t))

(* ---------------------------------------------------------------------- *)
(* The inputs: every short text over Alphabet, and expressions written     *)
(* with operands, operators, parentheses and names                         *)
(* ---------------------------------------------------------------------- *)
RECURSIVE Flat(_)
Flat(ps) == IF ps = <<>> THEN <<>> ELSE Head(ps) \o Flat(Tail(ps))

Alphabet == {"0", "2", "5", ".", "+", "-", "*", "/", "(", ")", " ", "^", "$", "e"}

ShortInputs == UNION {[1..n -> {<<c>> : c \in Alphabet}] : n \in 0..MaxLen}

Operands == {StrInt(n) : n \in 0..MaxOperand}
CallOperands == Operands \cup {StrInt(9), StrInt(10), StrInt(16)}
OpTexts == {<<"+">>, <<"-">>, <<"*">>, <<"/">>, <<"*", "*">>}
Signs == {<<>>, <<"-">>}
Gaps == {<<>>, <<" ">>}
LP == <<"(">>
RP == <<")">>
SP == <<" ">>

NameTexts ==
    {<<"s", "q", "r", "t">>, <<"s", "i", "n">>, <<"c", "o", "s">>, <<"t", "a", "n">>,
     <<"a", "s", "i", "n">>, <<"a", "c", "o", "s">>, <<"a", "t", "a", "n">>,
     <<"l", "o", "g">>, <<"l", "n">>, <<"r", "a", "d">>, <<"d", "e", "g">>,
     <<"w", "h", "a", "t">>, <<"p", "i">>}

\* a o1 b o2 c, written tight or with blanks
Chains == {<<a, g, o1, g, b, g, o2, g, c>> :
             a \in Operands, b \in Operands, c \in Operands,
             o1 \in OpTexts, o2 \in OpTexts, g \in Gaps}

\* (a o1 b) o2 c and a o1 (b o2 c)
Grouped ==
    {<<LP, a, o1, b, RP, o2, c>> :
        a \in Operands, b \in Operands, c \in Operands, o1 \in OpTexts, o2 \in OpTexts}
    \cup
    {<<a, o1, LP, b, o2, c, RP>> :
        a \in Operands, b \in Operands, c \in Operands, o1 \in OpTexts, o2 \in OpTexts}

\* a o b and a o -b, also with '^' and with a fractional exponent
Pairs ==
    {<<sa, a, g, o, g, sb, b>> :
        sa \in Signs, a \in CallOperands, g \in Gaps, o \in OpTexts \cup {<<"^">>},
        sb \in Signs, b \in Operands \cup {<<"0", ".", "5">>, <<"1", ".", "5">>}}

\* name(a), name(-a), name a, and a name
Calls ==
    {<<f, LP, sg, a, RP>> : f \in NameTexts, sg \in Signs, a \in CallOperands}
    \cup {<<f, SP, a>> : f \in NameTexts, a \in Operands}
    \cup {<<f>> : f \in NameTexts}
    \cup {<<f, LP>> : f \in NameTexts}

\* two operands with no operator between them
Adjacent ==
    {<<a, LP, b, o, c, RP>> : a \in Operands, b \in Operands, c \in Operands, o \in OpTexts}
    \cup {<<LP, a, RP, LP, b, RP>> : a \in Operands, b \in Operands}
    \cup {<<a, f, LP, b, RP>> : a \in Operands, b \in Operands, f \in NameTexts}
    \cup {<<a, f>> : a \in Operands, f \in NameTexts}
    \cup {<<a, SP, b>> : a \in Operands, b \in Operands}
    \cup {<<LP, a, RP, b>> : a \in Operands, b \in Operands}

\* expressions that stop where an operand is due
Truncated ==
    {<<a, g, o, g, LP>> : a \in Operands, g \in Gaps, o \in OpTexts}
    \cup {<<a, g, o>> : a \in Operands, g \in Gaps, o \in OpTexts}
    \cup {<<LP, a, o>> : a \in Operands, o \in OpTexts}
    \cup {<<f, LP, a, o>> : f \in NameTexts, a \in Operands, o \in OpTexts}
    \cup {<<a, o, b, g, o2, g, LP>> :
            a \in Operands, b \in Operands, o \in OpTexts, o2 \in OpTexts, g \in Gaps}

\* up to three signs before a, up to one before b: s1 s2 s3 a o s4 b
SignTexts == {<<>>, <<"-">>, <<"+">>}
SignChains ==
    {<<s1, s2, s3, a, o, s4, b>> :
        s1 \in SignTexts, s2 \in SignTexts, s3 \in SignTexts, s4 \in SignTexts,
        a \in Operands, o \in OpTexts, b \in Operands}

\* x o y and what may follow it, x and y operands or subexpressions that fail
FailTerms ==
    {<<StrInt(1), <<"/">>, StrInt(0)>>,
     <<<<"s", "q", "r", "t">>, LP, <<"-">>, StrInt(1), RP>>,
     <<<<"l", "o", "g">>, LP, StrInt(0), RP>>,
     <<StrInt(2)>>}
Endings == {<<>>, <<SP, <<"$">>>>, <<LP>>, <<RP>>}
Failing == {x \o <<o>> \o y \o z : x \in FailTerms, o \in OpTexts, y \in FailTerms, z \in Endings}

\* blanks only
Blank == {[i \in 1..n |-> SP] : n \in 1..(MaxLen + 1)} \cup {<<<<"\t">>>>, <<SP, <<"\t">>>>}

\* the expressions of the unit tests (lines 346-360) and of the specification
Examples ==
    {<<StrInt(10), SP, <<"-">>, SP, StrInt(2), SP, <<"*">>, SP, StrInt(3)>>,
     <<LP, StrInt(10), SP, <<"-">>, SP, StrInt(2), RP, SP, <<"*">>, SP, StrInt(3)>>,
     <<LP, StrInt(2), SP, <<"+">>, SP, StrInt(3), RP, <<"*", "*">>, StrInt(2)>>,
     <<StrInt(2), SP, <<"+">>, SP, StrInt(3), <<"*", "*">>, StrInt(2)>>,
     <<StrInt(2), <<"*", "*">>, StrInt(3), <<"*", "*">>, StrInt(2)>>,
     <<StrInt(5), <<"+">>, StrInt(3)>>,
     <<StrInt(5), SP, <<"+">>, SP, StrInt(3)>>,
     <<StrInt(5), SP, <<"+">>, SP, <<"-">>, StrInt(3)>>,
     <<StrInt(5), LP, StrInt(3), <<"+">>, StrInt(1), RP>>,
     <<LP, StrInt(5), RP, LP, StrInt(3), RP>>,
     <<StrInt(5), <<"s", "i", "n">>, LP, StrInt(0), RP>>,
     <<StrInt(2), <<"p", "i">>>>,
     <<StrInt(10), SP, <<"/">>, SP, StrInt(0)>>,
     <<StrInt(10), <<"/">>, StrInt(0)>>,
     <<<<"s", "q", "r", "t">>, LP, <<"-">>, StrInt(4), RP>>,
     <<<<"s", "q", "r", "t">>, LP, StrInt(9), RP>>,
     <<StrInt(2), SP, <<"*">>, SP, <<"s", "q", "r", "t">>, LP, StrInt(16), RP, SP,
       <<"+">>, SP, StrInt(1)>>,
     <<StrInt(5), SP, <<"+">>, SP, LP>>,
     <<<<"-">>, <<"-">>, StrInt(5)>>,
     <<<<"-">>, StrInt(2), <<"*", "*">>, StrInt(2)>>,
     <<StrInt(4), <<"/">>, StrInt(2)>>,
     <<StrInt(1), <<"/">>, StrInt(0), SP, <<"+">>, SP, LP>>,
     <<LP, StrInt(0), <<"-">>, StrInt(8), RP, <<"*", "*">>, <<"0", ".", "5">>>>,
     <<<<"s", "q", "r", "t">>, LP, LP, StrInt(0), <<"-">>, StrInt(4), RP, <<"*", "*">>,
       <<"0", ".", "5">>, RP>>,
     <<<<"s", "q", "r", "t">>, LP, <<"-">>, StrInt(1), RP, <<"+">>, StrInt(1), <<"/">>,
       StrInt(0)>>,
     <<StrInt(1), <<"/">>, StrInt(0), <<"+">>, <<"s", "q", "r", "t">>, LP, <<"-">>,
       StrInt(1), RP>>,
     <<StrInt(1), SP, StrInt(1), SP, <<"$">>>>}

Inputs ==
    ShortInputs \cup Chains \cup Grouped \cup Pairs \cup Calls \cup Adjacent
    \cup Truncated \cup Blank \cup Examples \cup SignChains \cup Failing

\* the evaluation of t stays within the numbers the model covers
Covered(r) == IF r.ok THEN TRUE ELSE r.exc # "range"

InModelRange(t) == IF t = <<>> THEN TRUE ELSE Covered(interpret(t))

(* ---------------------------------------------------------------------- *)
(* One call of evaluate_expression(text), stage by stage                   *)
(* ---------------------------------------------------------------------- *)
\* tree and value before the stage that sets them
NoTree == [k |-> "None"]
NoValue == [t |-> "None"]

\* no evaluation has returned since the expression was last typed into or cleared
Forgotten == <<None>>

\* MainWindow.__init__: _create_display calls _on_all_clear
Constructed ==
    /\ current_expression = <<>>
    /\ last_result_showing = FALSE
    /\ result_display = [text |-> <<"0">>, alignment |-> "AlignRight"]
    /\ expression_alignment = "AlignRight"
    /\ listening = 0
    /\ event = [handler |-> None, given |-> <<>>]
    /\ returned = Forgotten

Init ==
    /\ pieces \in Inputs
    /\ text = Flat(pieces)
    /\ InModelRange(text)
    /\ pc = "call"
    /\ tree = NoTree
    /\ value = NoValue
    /\ handler = None
    /\ result = None
    /\ Constructed

\* line 315: if not text: return ""
CheckEmpty ==
    /\ pc = "call"
    /\ IF text = <<>>
       THEN pc' = "returned" /\ result' = <<>>
       ELSE pc' = "parse" /\ UNCHANGED result
    /\ UNCHANGED <<pieces, text, tree, value, handler>>
    /\ UNCHANGED window

\* a stage that raised: the except clause returns the error string
Caught(f) ==
    /\ pc' = "returned"
    /\ handler' = Handler(f)
    /\ result' = ErrorString(f)

ParseDone(p) ==
    IF p.ok THEN pc' = "visit" /\ tree' = p.node /\ UNCHANGED <<handler, result>>
    ELSE Caught(p) /\ UNCHANGED tree

\* lines 319-322 and 290: Lexer, Parser and parse(); lines 331-333 when it raises
Parse ==
    /\ pc = "parse"
    /\ ParseDone(parse(text))
    /\ UNCHANGED <<pieces, text, value>>
    /\ UNCHANGED window

VisitDone(v) ==
    IF v.ok THEN pc' = "format" /\ value' = v.value /\ UNCHANGED <<handler, result>>
    ELSE Caught(v) /\ UNCHANGED value

\* line 293: visit(tree); lines 334-339 when it raises
Visit ==
    /\ pc = "visit"
    /\ VisitDone(Visited(visit(tree)))
    /\ UNCHANGED <<pieces, text, tree>>
    /\ UNCHANGED window

\* lines 324-329: the result as text
Format ==
    /\ pc = "format"
    /\ pc' = "returned"
    /\ result' = format_result(value)
    /\ UNCHANGED <<pieces, text, tree, value, handler>>
    /\ UNCHANGED window

Next == CheckEmpty \/ Parse \/ Visit \/ Format

Spec == Init /\ [][Next]_vars

(* ---------------------------------------------------------------------- *)
(* The window of main.py: one step per event handler                       *)
(* ---------------------------------------------------------------------- *)
\* the buttons that append to the expression; "sqrt" stands for the root sign
DigitButtons == {"0", "4", "."}
OperatorButtons == BASIC_OPERATORS \cup {"^", "sqrt", "sin", "cos", "tan"}
InputButtons == DigitButtons \cup OperatorButtons

\* what _on_button_click appends for the button (lines 345-352)
Appended(b) ==
    CASE b = "sin" -> <<"s", "i", "n", "(">>
      [] b = "cos" -> <<"c", "o", "s", "(">>
      [] b = "tan" -> <<"t", "a", "n", "(">>
      [] b = "sqrt" -> <<"s", "q", "r", "t", "(">>
      [] b = "^" -> <<"*", "*">>
      [] OTHER -> <<b>>

\* the expressions parse_command hands over; the empty one when nothing was understood
VoiceCommands ==
    {<<>>,
     <<"5", " ", "*", " ", "3">>,
     <<"1", "0", " ", "/", " ", "0">>,
     <<"s", "q", "r", "t", "(", "9", ")">>,
     <<"1", " ", "/", " ", "4">>,
     <<"4", " ", "-", " ", "4">>}

\* the evaluation of t stays within the model and yields a number or an error
Evaluable(t) == InModelRange(t) /\ evaluate_expression(t) # <<"(complex)">>

\* "Error:" in result
HasError(r) == \E i \in 1..Len(r) : r[i] = "Error: "

Showing(t, a) == [text |-> t, alignment |-> a]

\* the expression reset after a result whatever the button is
Continued_reset(b) == IF last_result_showing THEN <<>> ELSE current_expression

\* current_expression at line 345, after the test of last_result_showing
Continued(b) ==
    IF last_result_showing /\ b \notin OperatorButtons THEN <<>> ELSE current_expression

\* _on_button_click for a digit, '.', an operator or a function (lines 335-354)
Click(b) ==
    /\ Len(Continued(b)) < MaxExpression
    /\ current_expression' = Continued(b) \o Appended(b)
    /\ last_result_showing' = FALSE
    /\ result_display' = Showing(Continued(b) \o Appended(b), "AlignRight")
    /\ expression_alignment' = "AlignRight"
    /\ event' = [handler |-> "_on_button_click", given |-> <<b>>]
    /\ returned' = Forgotten
    /\ UNCHANGED <<listening, evaluator>>

\* _on_equals leaving the expression in place when the result is an error
Evaluated_keep(r) ==
    /\ returned' = r
    /\ IF ~HasError(r)
       THEN /\ current_expression' = r
            /\ last_result_showing' = TRUE
            /\ result_display' = Showing(r, "AlignRight")
       ELSE /\ UNCHANGED current_expression
            /\ last_result_showing' = FALSE
            /\ result_display' = Showing(r, "AlignCenter")

\* _on_equals from line 364 on, r being the string evaluate_expression returned
Evaluated(r) ==
    /\ returned' = r
    /\ IF ~HasError(r)
       THEN /\ current_expression' = r
            /\ last_result_showing' = TRUE
            /\ result_display' = Showing(r, "AlignRight")
       ELSE /\ current_expression' = <<>>
            /\ last_result_showing' = FALSE
            /\ result_display' = Showing(r, "AlignCenter")

\* the '=' button: _on_button_click (lines 316-322) and _on_equals (356-376)
Equals ==
    /\ current_expression # <<>> => Evaluable(current_expression)
    /\ IF current_expression = <<>>
       THEN /\ result_display' = [result_display EXCEPT !.alignment = "AlignRight"]
            /\ UNCHANGED <<current_expression, last_result_showing, returned>>
       ELSE Evaluated(evaluate_expression(current_expression))
    /\ expression_alignment' = "AlignRight"
    /\ event' = [handler |-> "_on_equals", given |-> <<>>]
    /\ UNCHANGED <<listening, evaluator>>

\* the AC button: _on_all_clear (lines 378-386)
AllClear ==
    /\ current_expression' = <<>>
    /\ last_result_showing' = FALSE
    /\ result_display' = Showing(<<"0">>, "AlignRight")
    /\ expression_alignment' = "AlignRight"
    /\ event' = [handler |-> "_on_all_clear", given |-> <<>>]
    /\ returned' = Forgotten
    /\ UNCHANGED <<listening, evaluator>>

Count(c, t) == Cardinality({i \in 1..Len(t) : t[i] = c})

\* current_expression.endswith(check_tuple): every entry ends with one of these
EndsWithOpener(t) == t # <<>> /\ t[Len(t)] \in BASIC_OPERATORS \cup {"("}

\* the parenthesis _on_parentheses appends to the expression t (lines 393-402)
Parenthesis(t) ==
    IF Count("(", t) > Count(")", t) /\ ~EndsWithOpener(t) THEN <<")">> ELSE <<"(">>

\* the expression _on_parentheses starts from (lines 389-391)
Restarted == IF last_result_showing THEN <<>> ELSE current_expression

\* the '()' button: _on_parentheses (lines 388-405)
Parentheses ==
    /\ Len(Restarted) < MaxExpression
    /\ current_expression' = Restarted \o Parenthesis(Restarted)
    /\ last_result_showing' = FALSE
    /\ result_display' = Showing(Restarted \o Parenthesis(Restarted), "AlignRight")
    /\ expression_alignment' = "AlignRight"
    /\ event' = [handler |-> "_on_parentheses", given |-> <<>>]
    /\ returned' = Forgotten
    /\ UNCHANGED <<listening, evaluator>>

\* the microphone button: _on_mic_click starts an AiWorker thread (lines 409-421)
Mic ==
    /\ listening < MaxListening
    /\ listening' = listening + 1
    /\ result_display' = Showing(<<"Listening...">>, "AlignCenter")
    /\ expression_alignment' = "AlignRight"
    /\ event' = [handler |-> "_on_mic_click", given |-> <<>>]
    /\ UNCHANGED <<current_expression, last_result_showing, returned, evaluator>>

\* command_ready reaches the GUI thread: _on_ai_command_ready (lines 423-443)
Deliver(expression) ==
    /\ listening > 0
    /\ listening' = listening - 1
    /\ expression # <<>> => Evaluable(expression)
    /\ IF expression = <<>>
       THEN /\ current_expression' = <<>>
            /\ last_result_showing' = FALSE
            /\ result_display' = Showing(<<"0">>, "AlignRight")
            /\ expression_alignment' = "AlignCenter"
            /\ returned' = Forgotten
       ELSE /\ Evaluated(evaluate_expression(expression))
            /\ expression_alignment' = "AlignRight"
    /\ event' = [handler |-> "_on_ai_command_ready", given |-> expression]
    /\ UNCHANGED evaluator

\* no call of evaluate_expression is in progress between two handlers
InitUI ==
    /\ pieces = <<>> /\ text = <<>> /\ pc = "idle"
    /\ tree = NoTree /\ value = NoValue /\ handler = None /\ result = None
    /\ Constructed

NextUI ==
    \/ \E b \in InputButtons : Click(b)
    \/ Equals
    \/ AllClear
    \/ Parentheses
    \/ Mic
    \/ \E expression \in VoiceCommands : Deliver(expression)

SpecUI == InitUI /\ [][NextUI]_vars

(* ---------------------------------------------------------------------- *)
(* Vocabulary of the properties                                            *)
(* ---------------------------------------------------------------------- *)
Done == pc = "returned"
\* the input and the returned string as Python strings
In == Join(text)
Out == Join(result)

IsNumeral(p) == p # <<>> /\ \A i \in 1..Len(p) : isdigit(p[i])
ValueOf(p) == PyInt(DecimalValue(p, 0))
IsErrorString(r) == r # <<>> /\ Head(r) = "Error: "

NumberChars == {DigitChars[i] : i \in 1..10} \cup {"-", "+", ".", "e"}
\* the text of str(int) or of "%.10g": a sign, digits, a point, an exponent
IsNumberString(r) ==
    /\ r # <<>>
    /\ \A i \in 1..Len(r) : r[i] \in NumberChars
    /\ \E i \in 1..Len(r) : isdigit(r[i])

Level(o) == IF o \in {"+", "-"} THEN 1 ELSE IF o \in {"*", "/"} THEN 2 ELSE 3

\* the input is a o1 b o2 c
IsChain(ps) ==
    /\ Len(ps) = 9
    /\ IsNumeral(ps[1]) /\ IsNumeral(ps[5]) /\ IsNumeral(ps[9])
    /\ ps[3] \in OpTexts /\ ps[7] \in OpTexts
    /\ ps[2] \in Gaps /\ ps[4] = ps[2] /\ ps[6] = ps[2] /\ ps[8] = ps[2]

\* the AST and the value of (a o1 b) o2 c and of a o1 (b o2 c)
LeftTree(a, o1, b, o2, c) == BinOp(BinOp(Num(a), o1, Num(b)), o2, Num(c))
RightTree(a, o1, b, o2, c) == BinOp(Num(a), o1, BinOp(Num(b), o2, Num(c)))
LeftValue(a, o1, b, o2, c) == BinOpOn(o2, BinOpOn(o1, a, b), c)
RightValue(a, o1, b, o2, c) == BinOpOn(o1, a, BinOpOn(o2, b, c))

\* the string returned when the evaluation of the tree yields v
ReturnedFor(v) == Returned(Visited(v))

\* once parsed the tree has the grouping, once returned the result is its value's
Parsed3(a, o1, b, o2, c, right) ==
    /\ pc \notin {"call", "parse"} =>
          tree = IF right THEN RightTree(a, o1, b, o2, c) ELSE LeftTree(a, o1, b, o2, c)
    /\ Done => result = ReturnedFor(IF right THEN RightValue(a, o1, b, o2, c)
                                    ELSE LeftValue(a, o1, b, o2, c))

\* the chain is parsed and evaluated with the grouping right (or left)
ChainGroups(ps, right) ==
    Parsed3(ValueOf(ps[1]), Join(ps[3]), ValueOf(ps[5]), Join(ps[7]), ValueOf(ps[9]), right)

\* the input is (a o1 b) o2 c
IsGroupedLeft(ps) ==
    /\ Len(ps) = 7 /\ ps[1] = LP /\ ps[5] = RP
    /\ IsNumeral(ps[2]) /\ IsNumeral(ps[4]) /\ IsNumeral(ps[7])
    /\ ps[3] \in OpTexts /\ ps[6] \in OpTexts

\* the input is a o1 (b o2 c)
IsGroupedRight(ps) ==
    /\ Len(ps) = 7 /\ ps[3] = LP /\ ps[7] = RP
    /\ IsNumeral(ps[1]) /\ IsNumeral(ps[4]) /\ IsNumeral(ps[6])
    /\ ps[2] \in OpTexts /\ ps[5] \in OpTexts

\* the input is name(a) or name(-a)
IsCall(ps) ==
    /\ Len(ps) = 5 /\ ps[2] = LP /\ ps[5] = RP
    /\ ps[1] \in NameTexts /\ ps[3] \in Signs /\ IsNumeral(ps[4])

CallArgument(ps) == IF ps[3] = <<"-">> THEN Neg(ValueOf(ps[4])) ELSE ValueOf(ps[4])

RECURSIVE Nodes(_)
\* the nodes of an AST
Nodes(n) ==
    {n} \cup
    CASE n.k = "BinOp" -> Nodes(n.left) \cup Nodes(n.right)
      [] n.k = "UnaryOp" -> Nodes(n.operand)
      [] n.k = "FuncCall" -> Nodes(n.argument)
      [] OTHER -> {}

Children(n) ==
    CASE n.k = "BinOp" -> {n.left, n.right}
      [] n.k = "UnaryOp" -> {n.operand}
      [] n.k = "FuncCall" -> {n.argument}
      [] OTHER -> {}

\* a '/' whose operands evaluate without error, the right one to zero
DividesByZero(n) ==
    /\ n.k = "BinOp" /\ n.op = "/"
    /\ IsNum(visit(n.left)) /\ IsNum(visit(n.right))
    /\ IsZero(visit(n.right))

\* a node that fails on operands that evaluate without error, other than such a '/'
FailsOtherwise(n) ==
    /\ visit(n).t = "raise"
    /\ \A c \in Children(n) : visit(c).t # "raise"
    /\ ~DividesByZero(n)

\* the piece after which the '*' is implied, 0 when there is none
StarAfter(ps) ==
    IF Len(ps) >= 2 /\ IsNumeral(ps[1]) /\ (ps[2] = LP \/ ps[2] \in NameTexts) THEN 1
    ELSE IF Len(ps) >= 4 /\ ps[1] = LP /\ IsNumeral(ps[2]) /\ ps[3] = RP
            /\ (ps[4] = LP \/ IsNumeral(ps[4])) THEN 3
    ELSE 0

WithStar(ps) ==
    SubSeq(ps, 1, StarAfter(ps)) \o <<<<"*">>>> \o SubSeq(ps, StarAfter(ps) + 1, Len(ps))

\* the input is a ^ b, with or without signs and blanks
IsCaretPair(ps) ==
    /\ Len(ps) = 7 /\ ps[4] = <<"^">>
    /\ ps[1] \in Signs /\ ps[6] \in Signs /\ ps[3] \in Gaps /\ ps[5] = ps[3]
    /\ IsNumeral(ps[2])

\* the function registry of the specification
ElevenNames ==
    {"sqrt", "sin", "cos", "tan", "asin", "acos", "atan", "log", "ln", "rad", "deg"}

\* the argument a is outside the domain of f
OutsideDomain(f, a) ==
    \/ f = "sqrt" /\ IsNeg(a)
    \/ f \in {"log", "ln"} /\ (IsNeg(a) \/ IsZero(a))

IsDomainError(r) == Len(r) >= 3 /\ r[1] = "Error: " /\ r[2] = "Domain error: "

(* ---------------------------------------------------------------------- *)
(* C1: every call returns the empty string, a formatted number or a string *)
(* that starts with "Error: ", whichever stage fails.                      *)
(* ---------------------------------------------------------------------- *)
C1_ResultShape ==
    Done => (result = <<>> \/ IsErrorString(result) \/ IsNumberString(result))

(* ---------------------------------------------------------------------- *)
(* C2: an input that is empty or holds only whitespace returns the empty   *)
(* string, not an error string.                                            *)
(* ---------------------------------------------------------------------- *)
C2_BlankReturnsEmpty ==
    (Done /\ \A i \in 1..Len(text) : isspace(text[i])) => result = <<>>

(* ---------------------------------------------------------------------- *)
(* C3: in a o1 b o2 c the operator of the higher level takes its operands  *)
(* first (addition and subtraction are lowest, then multiplication and     *)
(* division, then power) and additive or multiplicative operators of one   *)
(* level group left to right; parentheses override it; "10 - 2 * 3" is     *)
(* "4", "(10 - 2) * 3" is "24" and "(2 + 3)" to the power 2 is "25".       *)
(* ---------------------------------------------------------------------- *)
C3_Precedence ==
    /\ (IsChain(pieces) /\ ~(pieces[3] = <<"*", "*">> /\ pieces[7] = <<"*", "*">>)) =>
          ChainGroups(pieces, Level(Join(pieces[7])) > Level(Join(pieces[3])))
    /\ IsGroupedLeft(pieces) =>
          Parsed3(ValueOf(pieces[2]), Join(pieces[3]), ValueOf(pieces[4]),
                  Join(pieces[6]), ValueOf(pieces[7]), FALSE)
    /\ IsGroupedRight(pieces) =>
          Parsed3(ValueOf(pieces[1]), Join(pieces[2]), ValueOf(pieces[4]),
                  Join(pieces[5]), ValueOf(pieces[6]), TRUE)
    /\ (Done /\ In = "10 - 2 * 3") => Out = "4"
    /\ (Done /\ In = "(10 - 2) * 3") => Out = "24"
    /\ (Done /\ In = "(2 + 3)**2") => Out = "25"

C3_Witness ==
    /\ Done /\ IsChain(pieces) /\ In = "3 - 2 * 3" /\ Out = "-3"
    /\ tree = RightTree(PyInt(3), "-", PyInt(2), "*", PyInt(3))

(* ---------------------------------------------------------------------- *)
(* C4: a power of a power groups to the right: a to the (b to the c);      *)
(* the input 2, power, 3, power, 2 returns "512".                          *)
(* ---------------------------------------------------------------------- *)
C4_PowerRightAssociative ==
    /\ (IsChain(pieces) /\ pieces[3] = <<"*", "*">> /\ pieces[7] = <<"*", "*">>) =>
          ChainGroups(pieces, TRUE)
    /\ (Done /\ In = "2**3**2") => Out = "512"

C4_Witness ==
    /\ Done /\ IsChain(pieces) /\ In = "2**3**2" /\ Out = "512"
    /\ tree = RightTree(PyInt(2), "**", PyInt(3), "**", PyInt(2))

(* ---------------------------------------------------------------------- *)
(* C5: a number or ')' directly followed by '(', an identifier or a number *)
(* is evaluated as if '*' stood between them; "5(3+1)" is "20" and         *)
(* "(5)(3)", "5sin(0)", "2pi" return numbers, not error strings.           *)
(* ---------------------------------------------------------------------- *)
C5_ImplicitMultiplication ==
    /\ (Done /\ In = "5(3+1)") => Out = "20"
    /\ (Done /\ StarAfter(pieces) > 0 /\ InModelRange(Flat(WithStar(pieces)))) =>
          result = evaluate_expression(Flat(WithStar(pieces)))
    /\ (Done /\ In \in {"(5)(3)", "5sin(0)", "2pi"}) => IsNumberString(result)

(* ---------------------------------------------------------------------- *)
(* C6: a^b returns the same string as a to the power b written with two    *)
(* stars.                                                                  *)
(* ---------------------------------------------------------------------- *)
C6_CaretIsPower ==
    (Done /\ IsCaretPair(pieces)) =>
        result = evaluate_expression(Flat([pieces EXCEPT ![4] = <<"*", "*">>]))

(* ---------------------------------------------------------------------- *)
(* C7: each of sqrt, sin, cos, tan, asin, acos, atan, log, ln, rad, deg    *)
(* with a parenthesised argument is evaluated as a function call, never    *)
(* rejected as an unknown function; asin and acos of an argument outside   *)
(* [-1, 1] yield a domain error.                                           *)
(* ---------------------------------------------------------------------- *)
C7_ElevenFunctions ==
    (Done /\ IsCall(pieces) /\ Join(pieces[1]) \in ElevenNames) =>
        /\ result # <<"Error: ", "Unknown function: ", Join(pieces[1])>>
        /\ (Join(pieces[1]) \in {"asin", "acos"} /\ Less(PyInt(1), ValueOf(pieces[4]))) =>
              (Len(result) >= 2 /\ result[1] = "Error: " /\ result[2] = "Domain error: ")

(* ---------------------------------------------------------------------- *)
(* C8: when the expression parses, some '/' has operands that evaluate     *)
(* without error with the right one zero, and nothing else in it fails,    *)
(* the result is exactly "Error: Division by zero"; in no case is a number *)
(* returned.                                                               *)
(* ---------------------------------------------------------------------- *)
C8_DivisionByZero ==
    (Done /\ tree # NoTree /\ \E n \in Nodes(tree) : DividesByZero(n)) =>
        /\ IsErrorString(result)
        /\ (\A n \in Nodes(tree) : ~FailsOtherwise(n)) => Out = "Error: Division by zero"

C8_Witness ==
    /\ Done /\ In = "10 / 0" /\ Out = "Error: Division by zero"
    /\ DividesByZero(tree) /\ handler = "runtime"

(* ---------------------------------------------------------------------- *)
(* C9: sqrt of an argument < 0 and log or ln of an argument <= 0 return an *)
(* error string that says domain error and names the function called;      *)
(* arguments inside the domain never do.                                   *)
(* ---------------------------------------------------------------------- *)
C9_DomainErrorNamesFunction ==
    (Done /\ IsCall(pieces) /\ Join(pieces[1]) \in {"sqrt", "log", "ln"}) =>
        IF OutsideDomain(Join(pieces[1]), CallArgument(pieces))
        THEN IsDomainError(result) /\ result[3] = Join(pieces[1])
        ELSE ~IsDomainError(result)

(* ---------------------------------------------------------------------- *)
(* C10: an input that ends where an operand is required, like "5 + (",     *)
(* returns exactly "Error: Invalid syntax. Expected NUMBER, got EOF".      *)
(* ---------------------------------------------------------------------- *)
C10_OperandMissing ==
    (Done /\ pieces \in Truncated) => Out = "Error: Invalid syntax. Expected NUMBER, got EOF"

\* a character some token of the language can hold
TokenChar(c) ==
    \/ isspace(c) \/ isdigit(c) \/ isalpha(c)
    \/ c \in {".", "_", "+", "-", "*", "/", "(", ")"}

IsInvalidCharacterError(r) ==
    Len(r) >= 2 /\ r[1] = "Error: " /\ r[2] = "Invalid character: '"

(* ---------------------------------------------------------------------- *)
(* C11: an input that holds, anywhere, a character no token can hold       *)
(* returns the lexical error reporting an invalid character, whatever      *)
(* tokens precede that character.                                          *)
(* ---------------------------------------------------------------------- *)
C11_InvalidCharacterAnywhere ==
    (Done /\ \E i \in 1..Len(text) : ~TokenChar(text[i])) => IsInvalidCharacterError(result)

(* ---------------------------------------------------------------------- *)
(* C12: when the computed value has no fractional part the returned string *)
(* holds no decimal point, also when the value is a float made by '/' or   *)
(* sqrt; "2**3" gives "8", "sqrt(9)" gives "3", "4/2" gives "2".           *)
(* ---------------------------------------------------------------------- *)
C12_IntegralWithoutPoint ==
    /\ (Done /\ IsNum(value) /\ IsIntegral(value)) =>
          /\ result # <<>>
          /\ \A i \in 1..Len(result) : result[i] \in {DigitChars[k] : k \in 1..10} \cup {"-"}
    /\ (Done /\ In = "2**3") => Out = "8"
    /\ (Done /\ In = "sqrt(9)") => Out = "3"
    /\ (Done /\ In = "4/2") => Out = "2"

C12_Witness ==
    /\ Done /\ In = "4/2" /\ Out = "2"
    /\ value.t = "float" /\ IsIntegral(value)

\* the input is s1 s2 s3 a o s4 b, each s a sign or nothing
IsSignChain(ps) ==
    /\ Len(ps) = 7
    /\ \A i \in {1, 2, 3, 6} : ps[i] \in SignTexts
    /\ IsNumeral(ps[4]) /\ IsNumeral(ps[7]) /\ ps[5] \in OpTexts

RECURSIVE SignedNode(_, _)
\* the signs ss, outermost first, each a UnaryOp on what follows it
SignedNode(ss, n) ==
    IF ss = <<>> THEN n
    ELSE IF Head(ss) = <<>> THEN SignedNode(Tail(ss), n)
    ELSE UnaryOp(Head(ss)[1], SignedNode(Tail(ss), n))

\* v negated once for every '-' among the signs ss
SignedValue(ss, v) ==
    IF Cardinality({i \in 1..Len(ss) : ss[i] = <<"-">>}) % 2 = 1 THEN Neg(v) ELSE v

(* ---------------------------------------------------------------------- *)
(* C14: a '+' or '-' where an operand is due is a unary sign on the factor *)
(* right after it and binds tighter than every binary operator, power      *)
(* included; signs in a row compose, n minus signs negating n times;       *)
(* "5 + -3" gives "2", "--5" gives "5", "-2**2" gives "4".                 *)
(* ---------------------------------------------------------------------- *)
C14_UnarySign ==
    /\ IsSignChain(pieces) =>
          /\ pc \notin {"call", "parse"} =>
                tree = BinOp(SignedNode(SubSeq(pieces, 1, 3), Num(ValueOf(pieces[4]))),
                             Join(pieces[5]),
                             SignedNode(<<pieces[6]>>, Num(ValueOf(pieces[7]))))
          /\ Done =>
                result = ReturnedFor(BinOpOn(Join(pieces[5]),
                                             SignedValue(SubSeq(pieces, 1, 3), ValueOf(pieces[4])),
                                             SignedValue(<<pieces[6]>>, ValueOf(pieces[7]))))
    /\ (Done /\ In = "5 + -3") => Out = "2"
    /\ (Done /\ In = "--5") => Out = "5"
    /\ (Done /\ In = "-2**2") => Out = "4"

C14_Witness ==
    /\ Done /\ IsSignChain(pieces) /\ In = "--2**2" /\ Out = "4"
    /\ tree = BinOp(UnaryOp("-", UnaryOp("-", Num(PyInt(2)))), "**", Num(PyInt(2)))

NoError == [t |-> "none"]

\* the exception node n itself raises when what is below it evaluates
OwnError(n) == IF visit(n).t = "raise" THEN visit(n) ELSE NoError

RECURSIVE FirstError(_)
\* the first exception met going through the tree operands first, left before right
FirstError(n) ==
    CASE n.k = "BinOp" ->
            IF FirstError(n.left) # NoError THEN FirstError(n.left)
            ELSE IF FirstError(n.right) # NoError THEN FirstError(n.right)
            ELSE OwnError(n)
      [] n.k = "UnaryOp" ->
            IF FirstError(n.operand) # NoError THEN FirstError(n.operand) ELSE OwnError(n)
      [] n.k = "FuncCall" ->
            IF FirstError(n.argument) # NoError THEN FirstError(n.argument) ELSE OwnError(n)
      [] OTHER -> NoError

(* ---------------------------------------------------------------------- *)
(* C15: evaluation starts only once the whole input is lexed and parsed:   *)
(* an input with a lexical or syntax error returns that error even when an *)
(* earlier subexpression would fail at evaluation ("1/0 + (" reports the   *)
(* syntax error); and in evaluation the operands of a binary operator are  *)
(* evaluated, left before right, before the operator's own check, so the   *)
(* first failure in that order is the error returned.                      *)
(* ---------------------------------------------------------------------- *)
C15_ParseBeforeEvaluate ==
    /\ pc \in {"visit", "format"} => (parse(text).ok /\ tree = parse(text).node)
    /\ value # NoValue => tree # NoTree
    /\ (Done /\ text # <<>> /\ ~parse(text).ok) =>
          /\ handler = "syntax" /\ tree = NoTree /\ value = NoValue
          /\ result = <<"Error: ">> \o parse(text).msg
    /\ (Done /\ tree # NoTree) =>
          IF FirstError(tree) = NoError THEN ~IsErrorString(result) /\ handler = None
          ELSE result = <<"Error: ">> \o FirstError(tree).msg
    /\ (Done /\ In = "1/0 + (") => Out = "Error: Unexpected token: TOKEN(EOF, None)"
    /\ (Done /\ In = "1/0 $") => Out = "Error: Invalid character: '$'"

\* the syntax error is returned although the expression before it divides by zero
C15_Witness ==
    /\ Done /\ In = "1/0 + (" /\ Out = "Error: Unexpected token: TOKEN(EOF, None)"
    /\ handler = "syntax" /\ tree = NoTree /\ value = NoValue

\* the left operand's failure is returned although the right operand divides by zero
C15_WitnessOrder ==
    /\ Done /\ In = "sqrt(-1)+1/0" /\ Out = "Error: Domain error: sqrt of negative number"
    /\ DividesByZero(tree.right)

\* the step is a press of the input button b
Pressed(b) == event' = [handler |-> "_on_button_click", given |-> <<b>>]

\* the step is a press of '=' while current_expression is empty
EqualsOnEmpty == current_expression = <<>> /\ event'.handler = "_on_equals"

(* ---------------------------------------------------------------------- *)
(* C13: while a result is showing, an operator or function button (+ - *   *)
(* / ^ root sin cos tan) appends to the shown result, any other input      *)
(* button (a digit or '.') starts the expression anew; either way          *)
(* last_result_showing is False afterwards.                                *)
(* ---------------------------------------------------------------------- *)
C13_ContinueOrReset ==
    [][\A b \in InputButtons :
          (last_result_showing /\ Pressed(b)) =>
              /\ last_result_showing' = FALSE
              /\ current_expression' =
                    IF b \in {"+", "-", "*", "/", "^", "sqrt", "sin", "cos", "tan"}
                    THEN current_expression \o Appended(b)
                    ELSE Appended(b)
              /\ result_display'.text = current_expression']_vars

\* "15" was showing after the voice command 5 * 3 and '+' was pressed
C13_Witness ==
    /\ event = [handler |-> "_on_button_click", given |-> <<"+">>]
    /\ current_expression = <<"1", "5", "+">>
    /\ last_result_showing = FALSE

\* the shown result is what the most recent evaluation returned; an evaluation
\* that returned an error leaves no expression behind
ResultInvariant ==
    /\ last_result_showing =>
          /\ current_expression # <<>>
          /\ ~HasError(current_expression)
          /\ returned # Forgotten
          /\ current_expression = returned
    /\ (returned # Forgotten /\ HasError(returned)) =>
          (current_expression = <<>> /\ last_result_showing = FALSE)

(* ---------------------------------------------------------------------- *)
(* C16, as stated: whenever last_result_showing is True,                   *)
(* current_expression is non-empty, holds no "Error:" and is the string    *)
(* the most recent evaluation returned; after an evaluation that returned  *)
(* an error current_expression is empty and last_result_showing is False;  *)
(* and '=' with an empty current_expression changes no state.              *)
(* ---------------------------------------------------------------------- *)
C16_AsStated ==
    /\ []ResultInvariant
    /\ [][EqualsOnEmpty =>
            UNCHANGED <<current_expression, last_result_showing, result_display,
                        expression_alignment, listening>>]_vars

(* ---------------------------------------------------------------------- *)
(* C16, amended: the same, except that '=' with an empty                   *)
(* current_expression changes nothing but the alignment of the two         *)
(* display lines, which it sets to right.                                  *)
(* ---------------------------------------------------------------------- *)
C16_UIInvariant ==
    /\ []ResultInvariant
    /\ [][EqualsOnEmpty =>
            /\ UNCHANGED <<current_expression, last_result_showing, listening>>
            /\ result_display' = [result_display EXCEPT !.alignment = "AlignRight"]
            /\ expression_alignment' = "AlignRight"]_vars

\* '=' was pressed on the empty expression left by an error: the message,
\* centred until then, is aligned right
C16_Witness ==
    /\ event = [handler |-> "_on_equals", given |-> <<>>]
    /\ HasError(returned) /\ result_display = Showing(returned, "AlignRight")
    /\ current_expression = <<>> /\ last_result_showing = FALSE

\* a result is showing after '=' on 4/4
C16_WitnessResult ==
    /\ event.handler = "_on_equals" /\ returned = <<"1">>
    /\ last_result_showing /\ current_expression = <<"1">>

====
